---- MODULE Spec2Model ----
(***************************************************************************)
(* The flow editing state machine of syndesis-ui:                          *)
(*   src/src/app/integrations/edit-page/current-flow.service.ts            *)
(*   src/src/app/store/step/step.store.ts                                  *)
(*                                                                         *)
(* JavaScript values are modelled as records so that every comparison is   *)
(* between values of one shape: a step slot is a record with a `slot`      *)
(* field ("step", "hole" for an index the array does not own, "null" for   *)
(* a null entry), an optional array is a `has...` flag next to the         *)
(* sequence, and a property value is a record [type, text].                *)
(***************************************************************************)
EXTENDS Integers, Sequences, FiniteSets, TLC

VARIABLES
  integration,   \* CurrentFlow._integration: the owned document
  loaded,        \* CurrentFlow._loaded
  timers,        \* pending setTimeout tasks, in firing order
  noConnections, \* 'integration-no-connections' has been emitted
  requests,      \* calls of store.updateOrCreate and their subscriptions
  callerProps,   \* the properties object the caller holds and passes in events
  exception,     \* what the last call threw: "none" or the error's name
  lastCall,      \* the call that ran last: its kind, position and argument
  continuation,  \* what the last call did with event['onSave']
  onSaves,       \* the number of events handled so far that carried an onSave
  answer,        \* what the last call returned, when it was a query
  history        \* the numbers of assignments made and of integration-updated handled

vars == <<integration, loaded, timers, noConnections, requests, callerProps,
          exception, lastCall, continuation, onSaves, answer, history>>

(***************************************************************************)
(* Bounds of the model.                                                    *)
(***************************************************************************)
MaxLen == 3
MaxTimers == 2
MaxSaves == 2
MaxOnSaves == 2
MaxNeighbours == 2
MaxLoads == 2

Undefined == "undefined"

(***************************************************************************)
(* Property values and JSON.                                               *)
(***************************************************************************)
\* A JavaScript value held under a key of a properties object.  `text` is the
\* value's JSON text (what JSON.stringify returns for it), or its source text
\* where JSON has none (Infinity, undefined).
JsValues ==
  { [type |-> "string",    text |-> "abc"],
    [type |-> "number",    text |-> "5"],
    [type |-> "number",    text |-> "Infinity"],
    [type |-> "boolean",   text |-> "true"],
    [type |-> "null",      text |-> "null"],
    [type |-> "object",    text |-> "{\"a\":1}"],
    [type |-> "undefined", text |-> "undefined"] }

\* The typeof operator.
TypeOf(value) == IF value.type = "null" THEN "object" ELSE value.type

\* A number JSON cannot write: JSON.stringify writes it as null.
NonFinite(value) == value.type = "number" /\ value.text \in {"NaN", "Infinity"}

\* JSON.parse(JSON.stringify(entries)) of an object's own entries: a key whose
\* value is undefined is left out, a non-finite number comes back as null.
JsonCloneEntries(entries) ==
  { IF NonFinite(e.value)
      THEN [key |-> e.key, value |-> [type |-> "null", text |-> "null"]]
      ELSE e
    : e \in { x \in entries : x.value.type # "undefined" } }

\* JSON.stringify(value) as a string value, for a value that came out of JSON.parse.
JsonStringify(value) == [type |-> "string", text |-> value.text]

NoProps == [defined |-> FALSE, entries |-> {}]

stringifyValues(props) ==
  IF ~props.defined THEN props
  ELSE [defined |-> TRUE,
        entries |->
          { IF TypeOf(e.value) \in {"string", "number"}
              THEN e
              ELSE [key |-> e.key, value |-> JsonStringify(e.value)]
            : e \in JsonCloneEntries(props.entries) }]

(***************************************************************************)
(* Steps and arrays of steps.                                              *)
(***************************************************************************)
Step(kind, connection, action, props) ==
  [slot |-> "step", stepKind |-> kind, connection |-> connection,
   action |-> action, configuredProperties |-> props]

\* TypeFactory.createStep(): a blank step.
createStep == Step(Undefined, Undefined, Undefined, NoProps)

\* An index below the array's length that the array does not own.
Hole == [createStep EXCEPT !.slot = "hole"]
\* A null entry.
Null == [createStep EXCEPT !.slot = "null"]

Holes(n) == [i \in 1..n |-> Hole]

Min(a, b) == IF a < b THEN a ELSE b
Max(a, b) == IF a < b THEN b ELSE a

\* array.splice(start, deleteCount, ...items) for start >= 0: the array afterwards.
Splice(array, start, deleteCount, items) ==
  LET from == Min(start, Len(array))
      gone == Min(Max(deleteCount, 0), Len(array) - from)
  IN  SubSeq(array, 1, from) \o items \o SubSeq(array, from + gone + 1, Len(array))

\* array[index] = value for index >= 0: the array afterwards.
AssignAt(array, index, value) ==
  IF index < Len(array)
    THEN [array EXCEPT ![index + 1] = value]
    ELSE array \o Holes(index - Len(array)) \o <<value>>

\* array[index] is a truthy value.
Truthy(array, index) == index < Len(array) /\ array[index + 1].slot = "step"

\* What a query returns.  `kind` says which of the other fields is the value:
\* "number", "boolean", "array" (list), "step", "connection", or none of them
\* for "undefined", "null", and "none" (the last call was no query).
NoAnswer ==
  [kind |-> "none", number |-> 0, boolean |-> FALSE, list |-> <<>>,
   step |-> Hole, connection |-> Undefined]

UndefinedAnswer == [NoAnswer EXCEPT !.kind = "undefined"]
NullAnswer == [NoAnswer EXCEPT !.kind = "null"]
NumberAnswer(n) == [NoAnswer EXCEPT !.kind = "number", !.number = n]
BooleanAnswer(b) == [NoAnswer EXCEPT !.kind = "boolean", !.boolean = b]
ArrayAnswer(array) == [NoAnswer EXCEPT !.kind = "array", !.list = array]

\* array[index] as a step: undefined when the array has nothing there.
StepAnswer(array, index) ==
  IF Truthy(array, index)
    THEN [NoAnswer EXCEPT !.kind = "step", !.step = array[index + 1]]
    ELSE UndefinedAnswer

\* step ? step.connection : undefined
ConnectionAnswer(array, index) ==
  IF Truthy(array, index) /\ array[index + 1].connection # Undefined
    THEN [NoAnswer EXCEPT !.kind = "connection",
                          !.connection = array[index + 1].connection]
    ELSE UndefinedAnswer

\* array.filter(step => step !== null): filter skips the holes.
WithoutNulls(array) ==
  SelectSeq(array, LAMBDA s : s.slot # "hole" /\ s.slot # "null")

\* array.filter(s => s.stepKind === 'endpoint'): filter skips the holes.
Endpoints(array) ==
  SelectSeq(array, LAMBDA s : s.slot # "hole" /\ s.stepKind = "endpoint")

(***************************************************************************)
(* The owned document.                                                     *)
(***************************************************************************)
NoIntegration ==
  [present |-> FALSE, hasSteps |-> FALSE, steps |-> <<>>,
   hasTags |-> FALSE, tags |-> <<>>, name |-> Undefined,
   configuredProperties |-> NoProps]

\* get steps(): the array, created on first use.
steps == integration.steps

WithSteps(array) == [integration EXCEPT !.hasSteps = TRUE, !.steps = array]

getFirstPosition == 0

\* getLastPosition() without the branch for a flow of at most one step.
getLastPositionOfLength == Len(steps) - 1

getLastPosition == IF Len(steps) <= 1 THEN 1 ELSE Len(steps) - 1

\* insertStepAfter with target = position: the off-by-one variant.
insertStepAt(array, position) ==
  Splice(array, position, 0, <<createStep>>)

insertStepAfter(array, position) ==
  Splice(array, position + 1, 0, <<createStep>>)

insertConnectionAfter(array, position) ==
  Splice(array, position + 1, 0, <<[createStep EXCEPT !.stepKind = "endpoint"]>>)

\* 'integration-remove-step' without the branch for the first and last position.
removeStepAlwaysSplices(array, position) ==
  Splice(array, position, 1, <<>>)

\* case 'integration-remove-step'
removeStep(array, position) ==
  IF position = getFirstPosition \/ position = getLastPosition
    THEN AssignAt(array, position, [createStep EXCEPT !.stepKind = "endpoint"])
    ELSE Splice(array, position, 1, <<>>)

\* 'integration-set-step' that updates the step in place instead of replacing it.
setStepKeepsConfiguration(array, position, kind) ==
  AssignAt(array, position,
           IF Truthy(array, position)
             THEN [array[position + 1] EXCEPT !.stepKind = kind]
             ELSE [createStep EXCEPT !.stepKind = kind])

\* case 'integration-set-step'
setStep(array, position, kind) ==
  AssignAt(array, position, [createStep EXCEPT !.stepKind = kind])

\* case 'integration-set-properties'
setProperties(array, position, props) ==
  LET step == IF Truthy(array, position) THEN array[position + 1] ELSE createStep
  IN  AssignAt(array, position,
               [step EXCEPT !.configuredProperties = stringifyValues(props)])

\* 'integration-set-action' that always starts from a new step.
setActionOnNewStep(array, position, action) ==
  AssignAt(array, position,
           [createStep EXCEPT !.action = action, !.stepKind = "endpoint"])

\* case 'integration-set-action'
setAction(array, position, action) ==
  LET step == IF Truthy(array, position) THEN array[position + 1] ELSE createStep
  IN  AssignAt(array, position,
               [step EXCEPT !.action = action, !.stepKind = "endpoint"])

\* case 'integration-set-connection'
setConnection(array, position, connection) ==
  AssignAt(array, position,
           [createStep EXCEPT !.stepKind = "endpoint", !.connection = connection])

(***************************************************************************)
(* What callers pass in.                                                   *)
(***************************************************************************)
Connections == {"conn1", "conn2"}

\* connection.connectorId
connectorId(connection) == IF connection = "conn1" THEN "twitter" ELSE "salesforce"

Actions == {"act1"}

\* event['step'].stepKind of 'integration-set-step'
StepKinds == {"mapper"}

\* The payload of the spec's scenario: {count: 5, meta: {a: 1}}.
ScenarioProps ==
  [defined |-> TRUE,
   entries |-> { [key |-> "count", value |-> [type |-> "number", text |-> "5"]],
                 [key |-> "meta", value |-> [type |-> "object", text |-> "{\"a\":1}"]] }]

Twitter == Step("endpoint", "conn1", "act1", NoProps)
Salesforce == Step("endpoint", "conn2", "act1", NoProps)
Mapper == Step("mapper", Undefined, Undefined, NoProps)

Document(hasSteps, array, hasTags, tags) ==
  [present |-> TRUE, hasSteps |-> hasSteps, steps |-> array,
   hasTags |-> hasTags, tags |-> tags, name |-> "flow",
   configuredProperties |-> NoProps]

\* The integrations a caller assigns; a step array may hold null entries.
Integrations ==
  { Document(FALSE, <<>>, FALSE, <<>>),
    Document(TRUE, <<>>, TRUE, <<>>),
    Document(TRUE, <<Twitter>>, TRUE, <<"custom">>),
    Document(TRUE, <<Twitter, Null, Salesforce>>, TRUE, <<"twitter">>),
    Document(TRUE, <<Twitter, Mapper, Twitter>>, FALSE, <<>>) }

(***************************************************************************)
(* The pure parts of integration-save, and event['onSave'].                *)
(***************************************************************************)
Range(seq) == { seq[i] : i \in 1..Len(seq) }

\* getSubsequentSteps(position): steps.slice(position)
getSubsequentSteps(array, position) ==
  SubSeq(array, Min(position, Len(array)) + 1, Len(array))

\* getSubsequentConnections(position)
getSubsequentConnections(array, position) ==
  Endpoints(getSubsequentSteps(array, position))

\* getIntegrationClone().tags || [] for the owned document `document`: JSON
\* writes an array of strings as it is.
tagsOfClone(document) == IF document.hasTags THEN document.tags ELSE <<>>

cloneTags == tagsOfClone(integration)

\* The merge without the indexOf test.
mergeTagsPushesAll(tags, ids) == tags \o ids

\* connectorIds.forEach(id => tags.indexOf(id) === -1 ? tags.push(id) : false)
RECURSIVE mergeTags(_, _)
mergeTags(tags, ids) ==
  IF ids = <<>> THEN tags
  ELSE mergeTags(IF Head(ids) \in Range(tags) THEN tags ELSE Append(tags, Head(ids)),
                 Tail(ids))

\* The subscription made by integration-save.  `tags` are the tags of the
\* integration handed to store.updateOrCreate.
Request(tags, hasAction, hasError) ==
  [tags |-> tags, hasAction |-> hasAction, hasError |-> hasError,
   result |-> "pending", subscribed |-> TRUE,
   actionCalls |-> 0, errorCalls |-> 0, passed |-> Undefined]

\* integration-save that merges the connector ids into the tags of the owned
\* document instead of a clone.
saveWithoutClone(document, queue, hasAction, hasError) ==
  IF ~document.present
    THEN [integration |-> document, requests |-> queue, exception |-> "SyntaxError"]
    ELSE LET connections == getSubsequentConnections(document.steps, 0)
             tags == mergeTags(tagsOfClone(document),
                               [i \in 1..Len(connections) |->
                                  IF connections[i].connection = Undefined
                                    THEN Undefined
                                    ELSE connectorId(connections[i].connection)])
         IN  IF \E i \in 1..Len(connections) : connections[i].connection = Undefined
               THEN [integration |-> [document EXCEPT !.hasSteps = TRUE],
                     requests |-> queue, exception |-> "TypeError"]
               ELSE [integration |-> [document EXCEPT !.hasSteps = TRUE,
                                                      !.hasTags = TRUE,
                                                      !.tags = tags],
                     requests |-> Append(queue, Request(tags, hasAction, hasError)),
                     exception |-> "none"]

\* case 'integration-save' with `document` as the owned integration and `queue`
\* as the calls of store.updateOrCreate made so far: the document, the calls
\* and the exception afterwards.
save(document, queue, hasAction, hasError) ==
  IF ~document.present
    THEN \* JSON.parse(JSON.stringify(undefined))
         [integration |-> document, requests |-> queue, exception |-> "SyntaxError"]
    ELSE LET connections == getSubsequentConnections(document.steps, 0)
         IN  \* getSubsequentSteps creates the steps array when there is none
             IF \E i \in 1..Len(connections) : connections[i].connection = Undefined
               THEN \* step.connection.connectorId of a step without connection
                    [integration |-> [document EXCEPT !.hasSteps = TRUE],
                     requests |-> queue, exception |-> "TypeError"]
               ELSE [integration |-> [document EXCEPT !.hasSteps = TRUE],
                     requests |->
                       Append(queue,
                              Request(mergeTags(tagsOfClone(document),
                                                [i \in 1..Len(connections) |->
                                                   connectorId(connections[i].connection)]),
                                      hasAction, hasError)),
                     exception |-> "none"]

\* What a caller that supplies event['onSave'] puts there: a value that is no
\* function, a function that reads currentFlow.integration, and a function
\* that emits {kind: 'integration-save'} on currentFlow.events (the follow-up
\* save).
OnSaves == {"object", "reads integration", "emits integration-save"}

Functions == {"reads integration", "emits integration-save"}

\* The follow-up commands a continuation issues.
Emits(thing) == IF thing = "emits integration-save" THEN <<"integration-save">> ELSE <<>>

\* `supplied` is event['onSave'], `calls` the number of times the handler
\* invoked it, `observed` the owned document as the continuation found it, and
\* `nested` the kinds of the commands whose handler was entered before the
\* handler of the command returned.
NoContinuation ==
  [supplied |-> Undefined, calls |-> 0, observed |-> NoIntegration, nested |-> <<>>]

\* A handler that does not look at event['onSave'].
Ignored(thing) == [NoContinuation EXCEPT !.supplied = thing]

\* An event is handled: those that carry an onSave are counted, up to MaxOnSaves.
Carrying(onSave) ==
  /\ onSave # Undefined => onSaves < MaxOnSaves
  /\ onSaves' = IF onSave # Undefined THEN onSaves + 1 ELSE onSaves

\* maybeDoAction that calls the continuation with the document as it was
\* before the command.
maybeDoActionFirst(thing, document, queue) ==
  IF thing \in Functions
    THEN LET followUp == IF Emits(thing) # <<>>
                           THEN save(integration, queue, FALSE, FALSE)
                           ELSE [integration |-> integration, requests |-> queue,
                                 exception |-> "none"]
         IN  [integration |-> document,
              requests |-> followUp.requests,
              exception |-> followUp.exception,
              continuation |-> [supplied |-> thing, calls |-> 1,
                                observed |-> integration, nested |-> Emits(thing)]]
    ELSE [integration |-> document, requests |-> queue, exception |-> "none",
          continuation |-> Ignored(thing)]

\* maybeDoAction(event['onSave']) once the command has left `document` as the
\* owned integration.  events.emit calls handleEvent before it returns, so a
\* continuation that emits a command has it handled inside this call; what the
\* follow-up throws comes out of the handler of the command.
maybeDoAction(thing, document, queue) ==
  IF thing \in Functions
    THEN LET followUp == IF Emits(thing) # <<>>
                           THEN save(document, queue, FALSE, FALSE)
                           ELSE [integration |-> document, requests |-> queue,
                                 exception |-> "none"]
         IN  [integration |-> followUp.integration,
              requests |-> followUp.requests,
              exception |-> followUp.exception,
              continuation |-> [supplied |-> thing, calls |-> 1,
                                observed |-> document, nested |-> Emits(thing)]]
    ELSE [integration |-> document, requests |-> queue, exception |-> "none",
          continuation |-> Ignored(thing)]

(***************************************************************************)
(* Init: the service after its constructor.                                *)
(***************************************************************************)
Init ==
  /\ integration = NoIntegration
  /\ loaded = FALSE
  /\ timers = <<>>
  /\ noConnections = FALSE
  /\ requests = <<>>
  /\ callerProps = ScenarioProps
  /\ exception = "none"
  /\ lastCall = [kind |-> "constructor", position |-> 0, arg |-> Undefined]
  /\ continuation = NoContinuation
  /\ onSaves = 0
  /\ answer = NoAnswer
  /\ history = [loads |-> 0, updates |-> 0]

(***************************************************************************)
(* set integration(i)                                                      *)
(***************************************************************************)
\* The document the setter leaves: null entries are filtered out of its steps.
Assigned(i) ==
  IF i.hasSteps /\ Len(i.steps) > 0
    THEN [i EXCEPT !.steps = WithoutNulls(i.steps)]
    ELSE i

\* The setter with an immediate emit of 'integration-updated' in place of
\* the setTimeout.
SetIntegrationEmitsNow(i) ==
  /\ Len(timers) < MaxTimers
  /\ history.loads < MaxLoads
  /\ loaded' = TRUE
  /\ integration' = Assigned(i)
  /\ timers' = Append(timers, "check isEmpty")
  /\ exception' = "none"
  /\ lastCall' = [kind |-> "set integration", position |-> 0, arg |-> Undefined]
  /\ continuation' = NoContinuation
  /\ answer' = NoAnswer
  /\ history' = [history EXCEPT !.loads = @ + 1]
  /\ UNCHANGED <<noConnections, requests, callerProps, onSaves>>

\* The setter with a clearTimeout of the emits scheduled before.
SetIntegrationCancelsEarlier(i) ==
  /\ Len(timers) < MaxTimers
  /\ history.loads < MaxLoads
  /\ loaded' = FALSE
  /\ integration' = Assigned(i)
  /\ timers' = Append(SelectSeq(timers, LAMBDA t : t # "emit integration-updated"),
                      "emit integration-updated")
  /\ exception' = "none"
  /\ lastCall' = [kind |-> "set integration", position |-> 0, arg |-> Undefined]
  /\ continuation' = NoContinuation
  /\ answer' = NoAnswer
  /\ history' = [history EXCEPT !.loads = @ + 1]
  /\ UNCHANGED <<noConnections, requests, callerProps, onSaves>>

SetIntegration(i) ==
  /\ Len(timers) < MaxTimers
  /\ history.loads < MaxLoads
  /\ loaded' = FALSE
  /\ integration' = Assigned(i)
  /\ timers' = Append(timers, "emit integration-updated")
  /\ exception' = "none"
  /\ lastCall' = [kind |-> "set integration", position |-> 0, arg |-> Undefined]
  /\ continuation' = NoContinuation
  /\ answer' = NoAnswer
  /\ history' = [history EXCEPT !.loads = @ + 1]
  /\ UNCHANGED <<noConnections, requests, callerProps, onSaves>>

(***************************************************************************)
(* handleEvent(event), one action per kind.  Positions are drawn from      *)
(* getFirstPosition()..getLastPosition().  Without an integration          *)
(* this.steps is undefined and the handler throws a TypeError.             *)
(***************************************************************************)
Positions == getFirstPosition..getLastPosition

\* The handler of a command that leaves `document` as the owned integration
\* and then calls maybeDoAction(event['onSave']).
Handle(kind, position, arg, document, onSave) ==
  /\ Carrying(onSave)
  /\ Emits(onSave) # <<>> => Len(requests) < MaxSaves
  /\ lastCall' = [kind |-> kind, position |-> position, arg |-> arg]
  /\ IF integration.present
       THEN LET done == maybeDoAction(onSave, document, requests)
            IN  /\ integration' = done.integration
                /\ requests' = done.requests
                /\ exception' = done.exception
                /\ continuation' = done.continuation
       ELSE /\ exception' = "TypeError"
            /\ continuation' = Ignored(onSave)
            /\ UNCHANGED <<integration, requests>>
  /\ answer' = NoAnswer
  /\ UNCHANGED history
  /\ UNCHANGED <<loaded, timers, noConnections, callerProps>>

\* The handler of an edit command that leaves `array` as the step array.
EditThen(kind, position, arg, array, onSave) ==
  /\ Len(array) <= MaxLen
  /\ Handle(kind, position, arg, WithSteps(array), onSave)

\* An edit command whose event carries no onSave.
Edit(kind, position, arg, array) == EditThen(kind, position, arg, array, Undefined)

InsertStep ==
  \E position \in Positions :
    Edit("integration-insert-step", position, Undefined, insertStepAfter(steps, position))

InsertConnection ==
  \E position \in Positions :
    Edit("integration-insert-connection", position, Undefined,
         insertConnectionAfter(steps, position))

RemoveStep ==
  \E position \in Positions :
    Edit("integration-remove-step", position, Undefined, removeStep(steps, position))

SetStep ==
  \E position \in Positions, kind \in StepKinds :
    Edit("integration-set-step", position, kind, setStep(steps, position, kind))

SetProperties ==
  \E position \in Positions :
    Edit("integration-set-properties", position, Undefined,
         setProperties(steps, position, callerProps))

SetAction ==
  \E position \in Positions, action \in Actions :
    Edit("integration-set-action", position, action, setAction(steps, position, action))

SetConnection(connection) ==
  \E position \in Positions :
    Edit("integration-set-connection", position, connection,
         setConnection(steps, position, connection))

\* The same commands with an event that carries onSave.
InsertStepThen(onSave) ==
  \E position \in Positions :
    EditThen("integration-insert-step", position, Undefined,
             insertStepAfter(steps, position), onSave)

InsertConnectionThen(onSave) ==
  \E position \in Positions :
    EditThen("integration-insert-connection", position, Undefined,
             insertConnectionAfter(steps, position), onSave)

RemoveStepThen(onSave) ==
  \E position \in Positions :
    EditThen("integration-remove-step", position, Undefined,
             removeStep(steps, position), onSave)

SetStepThen(onSave) ==
  \E position \in Positions, kind \in StepKinds :
    EditThen("integration-set-step", position, kind,
             setStep(steps, position, kind), onSave)

SetPropertiesThen(onSave) ==
  \E position \in Positions :
    EditThen("integration-set-properties", position, Undefined,
             setProperties(steps, position, callerProps), onSave)

SetActionThen(onSave) ==
  \E position \in Positions, action \in Actions :
    EditThen("integration-set-action", position, action,
             setAction(steps, position, action), onSave)

SetConnectionThen(connection, onSave) ==
  \E position \in Positions :
    EditThen("integration-set-connection", position, connection,
             setConnection(steps, position, connection), onSave)

(***************************************************************************)
(* The editing specification: an integration has been assigned, and the    *)
(* seven edit commands are issued in any order.                            *)
(***************************************************************************)
InitEdit ==
  /\ integration \in { Assigned(i) : i \in Integrations }
  /\ loaded = FALSE
  /\ timers = <<"emit integration-updated">>
  /\ noConnections = FALSE
  /\ requests = <<>>
  /\ callerProps = ScenarioProps
  /\ exception = "none"
  /\ lastCall = [kind |-> "set integration", position |-> 0, arg |-> Undefined]
  /\ continuation = NoContinuation
  /\ onSaves = 0
  /\ answer = NoAnswer
  /\ history = [loads |-> 1, updates |-> 0]

NextEdit ==
  \/ InsertStep
  \/ InsertConnection
  \/ RemoveStep
  \/ SetStep
  \/ SetProperties
  \/ SetAction
  \/ SetConnection("conn1")

SpecEdit == InitEdit /\ [][NextEdit]_vars

(***************************************************************************)
(* The deferred tasks.  Every setTimeout has the same delay, so the tasks  *)
(* fire in the order they were scheduled.                                  *)
(***************************************************************************)
\* isEmpty() that takes a flow of one step for empty.
isEmptyBelowTwo == IF ~integration.present THEN TRUE ELSE Len(steps) <= 1

\* isEmpty()
isEmpty == IF ~integration.present THEN TRUE ELSE Len(steps) = 0

\* case 'integration-updated' with `pending` as the tasks still to fire and
\* `carried` as event['integration']: handleEvent sets _loaded and schedules
\* the check of isEmpty(); it does not look at event['onSave'].  lastCall.arg
\* is the integration the event carried.
Updated(pending, onSave, carried) ==
  /\ Carrying(onSave)
  /\ loaded' = TRUE
  /\ timers' = Append(pending, "check isEmpty")
  /\ exception' = "none"
  /\ lastCall' = [kind |-> "integration-updated", position |-> 0, arg |-> carried]
  /\ continuation' = Ignored(onSave)
  /\ answer' = NoAnswer
  /\ history' = [history EXCEPT !.updates = @ + 1]
  /\ UNCHANGED <<integration, noConnections, requests, callerProps>>

\* The setter's task emits 'integration-updated' with this.integration as it
\* is when the task fires.
EmitUpdated ==
  /\ timers # <<>>
  /\ Head(timers) = "emit integration-updated"
  /\ Updated(Tail(timers), Undefined, integration)

\* The task of 'integration-updated' emits 'integration-no-connections' when
\* the flow is empty; isEmpty() reads this.steps, which creates the array.
\* lastCall.arg is what the task emitted.
CheckEmpty ==
  /\ timers # <<>>
  /\ Head(timers) = "check isEmpty"
  /\ timers' = Tail(timers)
  /\ noConnections' = (noConnections \/ isEmpty)
  /\ integration' = IF integration.present
                      THEN [integration EXCEPT !.hasSteps = TRUE]
                      ELSE integration
  /\ exception' = "none"
  /\ lastCall' = [kind |-> "check isEmpty", position |-> 0,
                  arg |-> IF isEmpty THEN "integration-no-connections" ELSE Undefined]
  /\ continuation' = NoContinuation
  /\ answer' = NoAnswer
  /\ UNCHANGED history
  /\ UNCHANGED <<loaded, requests, callerProps, onSaves>>

(***************************************************************************)
(* The life cycle specification: from the constructor on, integrations are *)
(* assigned, the deferred tasks fire, and steps are inserted and removed.  *)
(***************************************************************************)
Next ==
  \/ \E i \in Integrations : SetIntegration(i)
  \/ EmitUpdated
  \/ CheckEmpty
  \/ InsertStep
  \/ RemoveStep

Spec == Init /\ [][Next]_vars

\* A task handed to setTimeout fires.
FairSpec == Spec /\ WF_vars(EmitUpdated) /\ WF_vars(CheckEmpty)

(***************************************************************************)
(* Claims about the edit commands, checked under SpecEdit.                 *)
(***************************************************************************)
BlankEndpoint == [createStep EXCEPT !.stepKind = "endpoint"]

\* C1: integration-remove-step at position p of a flow of length n.  At
\* p = getFirstPosition() or p = getLastPosition() the length does not decrease
\* and the step at p is afterwards a blank step of kind 'endpoint'; at an
\* interior p (0 < p < getLastPosition()) the length decreases by one, the
\* steps before p stay and every step at an index i > p moves to i - 1.
RemoveStepEffect ==
  [][ lastCall'.kind = "integration-remove-step" =>
        LET p == lastCall'.position
            n == Len(steps)
        IN  /\ (p = getFirstPosition \/ p = getLastPosition) =>
                 /\ Len(steps') >= n
                 /\ p < Len(steps')
                 /\ steps'[p + 1] = BlankEndpoint
            /\ (0 < p /\ p < getLastPosition) =>
                 /\ Len(steps') = n - 1
                 /\ \A i \in 0..(p - 1) : steps'[i + 1] = steps[i + 1]
                 /\ \A i \in (p + 1)..(n - 1) : steps'[i] = steps[i + 1]
    ]_vars

\* An interior removal has happened: position 1 of <<Twitter, Mapper, Twitter>>
\* was removed (a removal at the last position would have left a blank endpoint
\* at position 1).
RemoveStepWitness ==
  /\ lastCall.kind = "integration-remove-step"
  /\ lastCall.position = 1
  /\ steps = <<Twitter, Twitter>>

\* C2 as stated: a non-empty flow whose first and last steps are endpoints
\* still begins and ends with an endpoint step after any edit command issued
\* with a position in 0..getLastPosition().
EndpointEnds(array) ==
  /\ Len(array) > 0
  /\ array[1].slot = "step" /\ array[1].stepKind = "endpoint"
  /\ array[Len(array)].slot = "step" /\ array[Len(array)].stepKind = "endpoint"

EndsStayEndpoints ==
  [][ EndpointEnds(steps) => EndpointEnds(steps') ]_vars

\* C3 as stated: every index 0..steps.length-1 of the step array holds a step.
NoGapInSteps ==
  \A i \in 1..Len(steps) : steps[i].slot = "step"

\* C4: for 0 <= p < n, integration-insert-step yields a flow of length n + 1
\* with a new blank step at index p + 1, the steps at 0..p unchanged and every
\* step at an index i >= p + 1 moved to i + 1; integration-insert-connection
\* does the same with a blank step of kind 'endpoint'.
InsertEffect ==
  [][ \A kind \in {"integration-insert-step", "integration-insert-connection"} :
        (lastCall'.kind = kind /\ lastCall'.position < Len(steps)) =>
          LET p == lastCall'.position
              n == Len(steps)
          IN  /\ Len(steps') = n + 1
              /\ steps'[p + 2] = IF kind = "integration-insert-step"
                                   THEN createStep ELSE BlankEndpoint
              /\ \A i \in 0..p : steps'[i + 1] = steps[i + 1]
              /\ \A i \in (p + 1)..(n - 1) : steps'[i + 2] = steps[i + 1]
    ]_vars

\* A blank step was inserted after position 0 of <<Twitter, Salesforce>>.
InsertWitness ==
  /\ lastCall.kind = "integration-insert-step"
  /\ lastCall.position = 0
  /\ steps = <<Twitter, createStep, Salesforce>>

\* C10: for 0 <= p < steps.length, integration-set-step leaves at p a blank
\* step carrying only the given stepKind and integration-set-connection a blank
\* step of kind 'endpoint' with the given connection; nothing else of the step
\* that was at p survives, and the length and the other positions are unchanged.
SetStepAndConnectionReplace ==
  [][ (/\ lastCall'.kind \in {"integration-set-step", "integration-set-connection"}
       /\ lastCall'.position < Len(steps)) =>
        LET p == lastCall'.position
        IN  /\ Len(steps') = Len(steps)
            /\ \A i \in 0..(Len(steps) - 1) : i # p => steps'[i + 1] = steps[i + 1]
            /\ steps'[p + 1] =
                 IF lastCall'.kind = "integration-set-step"
                   THEN [createStep EXCEPT !.stepKind = lastCall'.arg]
                   ELSE [createStep EXCEPT !.stepKind = "endpoint",
                                           !.connection = lastCall'.arg]
    ]_vars

\* integration-set-step replaced Twitter, a step with a connection and an
\* action, at position 0 of a two-step flow.
SetStepWitness ==
  /\ lastCall = [kind |-> "integration-set-step", position |-> 0, arg |-> "mapper"]
  /\ steps = <<[createStep EXCEPT !.stepKind = "mapper"], Salesforce>>

SaveEvent(hasAction, hasError, onSave) ==
  /\ Carrying(onSave)
  /\ Len(requests) < MaxSaves
  /\ lastCall' = [kind |-> "integration-save", position |-> 0, arg |-> Undefined]
  /\ LET done == save(integration, requests, hasAction, hasError)
     IN  /\ integration' = done.integration
         /\ requests' = done.requests
         /\ exception' = done.exception
  /\ continuation' = Ignored(onSave)
  /\ answer' = NoAnswer
  /\ UNCHANGED history
  /\ UNCHANGED <<loaded, timers, noConnections, callerProps>>

\* An integration-save whose event carries no onSave.
Save(hasAction, hasError) == SaveEvent(hasAction, hasError, Undefined)

\* The first callback without sub.unsubscribe().
saveSucceededKeepsSubscription(request) ==
  [request EXCEPT !.result = "saved",
                  !.actionCalls = IF request.hasAction THEN @ + 1 ELSE @,
                  !.passed = IF request.hasAction THEN "integration" ELSE @]

\* The subscription's first callback, (i: Integration) => ...
saveSucceeded(request) ==
  [request EXCEPT !.result = "saved",
                  !.actionCalls = IF request.hasAction THEN @ + 1 ELSE @,
                  !.passed = IF request.hasAction THEN "integration" ELSE @,
                  !.subscribed = FALSE]

\* The subscription's second callback, (reason: any) => ...
saveFailed(request) ==
  [request EXCEPT !.result = "failed",
                  !.errorCalls = IF request.hasError THEN @ + 1 ELSE @,
                  !.passed = IF request.hasError THEN "reason" ELSE @,
                  !.subscribed = FALSE]

\* The Persistence Collaborator delivers the one result of a request.
Deliver(kind, k, request) ==
  /\ requests[k].result = "pending"
  /\ requests[k].subscribed
  /\ requests' = [requests EXCEPT ![k] = request]
  /\ lastCall' = [kind |-> kind, position |-> k, arg |-> Undefined]
  /\ exception' = "none"
  /\ continuation' = NoContinuation
  /\ answer' = NoAnswer
  /\ UNCHANGED history
  /\ UNCHANGED <<integration, loaded, timers, noConnections, callerProps, onSaves>>

StoreSucceeds ==
  \E k \in 1..Len(requests) :
    Deliver("updateOrCreate next", k, saveSucceeded(requests[k]))

StoreFails ==
  \E k \in 1..Len(requests) :
    Deliver("updateOrCreate error", k, saveFailed(requests[k]))

(***************************************************************************)
(* The saving specification: an integration has been assigned; endpoints   *)
(* are blanked, removed, inserted and connected, and the flow is saved.    *)
(***************************************************************************)
NextSave ==
  \/ InsertConnection
  \/ RemoveStep
  \/ SetConnection("conn2")
  \/ Save(TRUE, TRUE)
  \/ StoreSucceeds
  \/ StoreFails

SpecSave == InitEdit /\ [][NextSave]_vars

(***************************************************************************)
(* The persistence specification: saves of an assigned integration, with   *)
(* and without continuations, and the store's answers.                     *)
(***************************************************************************)
NextStore ==
  \/ \E hasAction, hasError \in BOOLEAN : Save(hasAction, hasError)
  \/ StoreSucceeds
  \/ StoreFails

SpecStore == InitEdit /\ [][NextStore]_vars

(***************************************************************************)
(* Claims about integration-save.                                          *)
(***************************************************************************)
\* C5 as stated: handling integration-save never lets an exception out of the
\* command handler.
SaveNeverThrows ==
  lastCall.kind = "integration-save" => exception = "none"

\* C6 (SpecStore): no continuation of a save is invoked before the store's
\* result arrives; once it has arrived, the continuation of that result (when
\* the command supplies it) has been invoked exactly once, with the persisted
\* integration on success and with the reason on failure, the other
\* continuation has not been invoked, and the subscription is released.
Calls(supplied) == IF supplied THEN 1 ELSE 0

OneContinuationPerResult ==
  \A k \in 1..Len(requests) :
    LET r == requests[k]
    IN  /\ r.result = "pending" =>
             r.actionCalls = 0 /\ r.errorCalls = 0 /\ r.subscribed
        /\ r.result = "saved" =>
             /\ r.actionCalls = Calls(r.hasAction) /\ r.errorCalls = 0
             /\ r.hasAction => r.passed = "integration"
             /\ ~r.subscribed
        /\ r.result = "failed" =>
             /\ r.errorCalls = Calls(r.hasError) /\ r.actionCalls = 0
             /\ r.hasError => r.passed = "reason"
             /\ ~r.subscribed

\* Two saves with both continuations: one has succeeded, one has failed.
ContinuationsWitness ==
  /\ Len(requests) = 2
  /\ requests[1].hasAction /\ requests[1].hasError
  /\ requests[2].hasAction /\ requests[2].hasError
  /\ requests[1].result = "saved" /\ requests[1].actionCalls = 1
  /\ requests[2].result = "failed" /\ requests[2].errorCalls = 1

\* C7 (SpecSave): the integration a save hands to the store has as tags the
\* document's tags followed by the connectorId of every endpoint step of the
\* flow, in flow order, each id only if it is neither among the document's
\* tags nor the id of an earlier endpoint; a save that directly follows a save
\* hands over the same tags.
ExpectedTags(document) ==
  LET own == IF document.hasTags THEN document.tags ELSE <<>>
      endpoints == SelectSeq(document.steps,
                             LAMBDA s : s.slot = "step" /\ s.stepKind = "endpoint")
      ids == [i \in 1..Len(endpoints) |-> connectorId(endpoints[i].connection)]
      fresh == SelectSeq([j \in 1..Len(ids) |-> j],
                         LAMBDA j : /\ \A t \in 1..Len(own) : own[t] # ids[j]
                                    /\ \A k \in 1..(j - 1) : ids[k] # ids[j])
  IN  own \o [m \in 1..Len(fresh) |-> ids[fresh[m]]]

SubmittedTags ==
  [][ (lastCall'.kind = "integration-save" /\ exception' = "none") =>
        LET submitted == requests'[Len(requests')].tags
        IN  /\ Len(requests') = Len(requests) + 1
            /\ submitted = ExpectedTags(integration)
            /\ (lastCall.kind = "integration-save" /\ exception = "none") =>
                 submitted = requests[Len(requests)].tags
    ]_vars

\* <<Twitter, Mapper, Twitter>> without tags of its own was saved twice in a
\* row: both times the one connector id of its two endpoints was submitted once.
SubmittedTagsWitness ==
  /\ lastCall.kind = "integration-save"
  /\ exception = "none"
  /\ steps = <<Twitter, Mapper, Twitter>>
  /\ ~integration.hasTags
  /\ Len(requests) = 2
  /\ requests[1].tags = <<"twitter">>
  /\ requests[2].tags = <<"twitter">>

(***************************************************************************)
(* integration-set-property, and the properties specification: an          *)
(* integration has been assigned and the caller holds any properties       *)
(* object over two keys (or none); properties are set on steps and on the  *)
(* integration.                                                            *)
(***************************************************************************)
Keys == {"count", "meta"}

\* The properties objects a caller may hold: undefined, or an object with some
\* of the keys, each with any value.
Payloads ==
  {NoProps} \cup
  UNION { { [defined |-> TRUE,
             entries |-> { [key |-> k, value |-> f[k]] : k \in ks }]
            : f \in [ks -> JsValues] }
          : ks \in SUBSET Keys }

Names == {"renamed"}

\* case 'integration-set-property': what is stored under event['property'].
\* `value` is normalized for 'configuredProperties', and event['value'] is stored.
setProperty(property, eventValue) ==
  LET value == IF property = "configuredProperties"
                 THEN stringifyValues(eventValue)
                 ELSE eventValue
  IN  eventValue

SetPropertyThen(onSave) ==
  \/ \E name \in Names :
       Handle("integration-set-property", 0, "name",
              [integration EXCEPT !.name = setProperty("name", name)], onSave)
  \/ Handle("integration-set-property", 0, "configuredProperties",
            [integration EXCEPT !.configuredProperties =
               setProperty("configuredProperties", callerProps)], onSave)

\* An integration-set-property whose event carries no onSave.
SetProperty == SetPropertyThen(Undefined)

InitProps ==
  /\ integration \in { Assigned(i) : i \in Integrations }
  /\ loaded = FALSE
  /\ timers = <<"emit integration-updated">>
  /\ noConnections = FALSE
  /\ requests = <<>>
  /\ callerProps \in Payloads
  /\ exception = "none"
  /\ lastCall = [kind |-> "set integration", position |-> 0, arg |-> Undefined]
  /\ continuation = NoContinuation
  /\ onSaves = 0
  /\ answer = NoAnswer
  /\ history = [loads |-> 1, updates |-> 0]

NextProps ==
  \/ SetProperties
  \/ SetProperty

SpecProps == InitProps /\ [][NextProps]_vars

(***************************************************************************)
(* Claims about property normalization.                                    *)
(***************************************************************************)
\* The normalized mapping as C8 and C9 describe it: an entry whose value is a
\* string or a number is unchanged, every other entry holds the value's
\* serialized form as a string.  undefined has no serialized form: the claims
\* are read as saying nothing about a key whose value is undefined.
HasValue(props) ==
  [props EXCEPT !.entries = { e \in @ : e.value.type # "undefined" }]

NormalizedAsClaimed(props) ==
  IF ~props.defined THEN props
  ELSE [defined |-> TRUE,
        entries |-> { IF e.value.type \in {"string", "number"}
                        THEN e
                        ELSE [key |-> e.key,
                              value |-> [type |-> "string", text |-> e.value.text]]
                      : e \in HasValue(props).entries }]

\* C8 as stated: after integration-set-property with property
\* 'configuredProperties' the integration's configuredProperties holds the
\* normalized mapping; for another property the field holds the given value.
SetPropertyStoresNormalized ==
  [][ lastCall'.kind = "integration-set-property" =>
        IF lastCall'.arg = "configuredProperties"
          THEN HasValue(integration'.configuredProperties)
                 = NormalizedAsClaimed(callerProps)
          ELSE integration'.name \in Names
    ]_vars

\* C9 as stated: after integration-set-properties at position p the step at p
\* has as configuredProperties a copy of the payload with every string or
\* number value unchanged and every other value as a string; its stepKind,
\* connection and action are those of the step that was at p, or of a blank step
\* if there was none; the caller's payload object is not modified.
SetPropertiesStoresNormalized ==
  [][ lastCall'.kind = "integration-set-properties" =>
        LET p == lastCall'.position
            before == IF Truthy(steps, p) THEN steps[p + 1] ELSE createStep
            after == steps'[p + 1]
        IN  /\ HasValue(after.configuredProperties) = NormalizedAsClaimed(callerProps)
            /\ after.stepKind = before.stepKind
            /\ after.connection = before.connection
            /\ after.action = before.action
            /\ callerProps' = callerProps
    ]_vars

(***************************************************************************)
(* The chaining specification: an integration has been assigned, and up to *)
(* MaxOnSaves commands are issued, each of any kind and with any kind of   *)
(* event['onSave'].                                                        *)
(***************************************************************************)
\* A caller emits {kind: 'integration-updated', onSave: ...} on the bus; the
\* event has no integration field.
IssueUpdated(onSave) ==
  /\ Len(timers) < MaxTimers
  /\ Updated(timers, onSave, NoIntegration)

NextChain ==
  \/ \E onSave \in OnSaves : InsertStepThen(onSave)
  \/ \E onSave \in OnSaves : InsertConnectionThen(onSave)
  \/ \E onSave \in OnSaves : RemoveStepThen(onSave)
  \/ \E onSave \in OnSaves : SetStepThen(onSave)
  \/ \E onSave \in OnSaves : SetPropertiesThen(onSave)
  \/ \E onSave \in OnSaves : SetActionThen(onSave)
  \/ \E onSave \in OnSaves : SetConnectionThen("conn1", onSave)
  \/ \E onSave \in OnSaves : SetPropertyThen(onSave)
  \/ \E onSave \in OnSaves : SaveEvent(FALSE, FALSE, onSave)
  \/ \E onSave \in OnSaves : IssueUpdated(onSave)

SpecChain == InitEdit /\ [][NextChain]_vars

(***************************************************************************)
(* The positional queries.  With an integration, every query but           *)
(* getFirstPosition reads this.steps (or this._integration.steps) and so   *)
(* creates the array when the document has none.                           *)
(***************************************************************************)
\* getPreviousSteps(position): steps.slice(0, position)
getPreviousSteps(array, position) == SubSeq(array, 1, Min(position, Len(array)))

\* getPreviousConnections(position)
getPreviousConnections(array, position) == Endpoints(getPreviousSteps(array, position))

\* array.reverse()
Reverse(array) == [i \in 1..Len(array) |-> array[Len(array) + 1 - i]]

\* getPreviousConnection(position): connections.reverse()[0]
getPreviousConnection(array, position) ==
  StepAnswer(Reverse(getPreviousConnections(array, position)), 0)

\* getSubsequentConnection(position): connections[0]
getSubsequentConnection(array, position) ==
  StepAnswer(getSubsequentConnections(array, position), 0)

\* getMiddlePosition(): Math.round(last / 2) rounds a half upwards
getMiddlePosition == (getLastPosition + 1) \div 2

\* getMiddleSteps(): steps.slice(1, -1)
getMiddleSteps ==
  IF getLastPosition < 2 THEN <<>> ELSE SubSeq(steps, 2, Len(steps) - 1)

\* atEnd(position)
atEnd(position) == IF ~integration.present THEN TRUE ELSE position >= Len(steps)

\* The positions a caller asks about.
QueryPositions == 0..MaxLen

\* A query returns `result` or throws `thrown`; `reads` says that it reads the
\* steps of the integration.
Ask(query, position, result, thrown, reads) ==
  /\ lastCall' = [kind |-> query, position |-> position, arg |-> Undefined]
  /\ answer' = result
  /\ exception' = thrown
  /\ integration' = IF reads /\ integration.present
                      THEN [integration EXCEPT !.hasSteps = TRUE]
                      ELSE integration
  /\ continuation' = NoContinuation
  /\ UNCHANGED <<loaded, timers, noConnections, requests, callerProps, onSaves,
                 history>>

\* A query that returns undefined without an integration.
AskSoftly(query, position, result) ==
  Ask(query, position, IF integration.present THEN result ELSE UndefinedAnswer,
      "none", TRUE)

GetFirstPosition ==
  Ask("getFirstPosition", 0,
      IF integration.present THEN NumberAnswer(getFirstPosition) ELSE UndefinedAnswer,
      "none", FALSE)

GetLastPosition == AskSoftly("getLastPosition", 0, NumberAnswer(getLastPosition))

GetMiddlePosition == AskSoftly("getMiddlePosition", 0, NumberAnswer(getMiddlePosition))

GetStep ==
  \E position \in QueryPositions :
    AskSoftly("getStep", position, StepAnswer(steps, position))

GetStartStep == AskSoftly("getStartStep", 0, StepAnswer(steps, getFirstPosition))

\* lastPosition < 1 is undefined < 1, false, without an integration
GetEndStep == AskSoftly("getEndStep", 0, StepAnswer(steps, getLastPosition))

GetStartConnection ==
  AskSoftly("getStartConnection", 0, ConnectionAnswer(steps, getFirstPosition))

GetEndConnection ==
  AskSoftly("getEndConnection", 0, ConnectionAnswer(steps, getLastPosition))

\* Without an integration getLastPosition() < 2 is false and !this.steps is true.
GetMiddleSteps ==
  Ask("getMiddleSteps", 0,
      IF integration.present THEN ArrayAnswer(getMiddleSteps) ELSE ArrayAnswer(<<>>),
      "none", TRUE)

GetPreviousSteps ==
  \E position \in QueryPositions :
    AskSoftly("getPreviousSteps", position,
              ArrayAnswer(getPreviousSteps(steps, position)))

GetSubsequentSteps ==
  \E position \in QueryPositions :
    AskSoftly("getSubsequentSteps", position,
              ArrayAnswer(getSubsequentSteps(steps, position)))

\* Without an integration the answer of get...Steps is undefined: return null.
GetPreviousConnections ==
  \E position \in QueryPositions :
    Ask("getPreviousConnections", position,
        IF integration.present
          THEN ArrayAnswer(getPreviousConnections(steps, position))
          ELSE NullAnswer,
        "none", TRUE)

GetSubsequentConnections ==
  \E position \in QueryPositions :
    Ask("getSubsequentConnections", position,
        IF integration.present
          THEN ArrayAnswer(getSubsequentConnections(steps, position))
          ELSE NullAnswer,
        "none", TRUE)

\* Without an integration: null.reverse()
GetPreviousConnection ==
  \E position \in QueryPositions :
    IF integration.present
      THEN Ask("getPreviousConnection", position,
               getPreviousConnection(steps, position), "none", TRUE)
      ELSE Ask("getPreviousConnection", position, NoAnswer, "TypeError", TRUE)

\* Without an integration: null[0]
GetSubsequentConnection ==
  \E position \in QueryPositions :
    IF integration.present
      THEN Ask("getSubsequentConnection", position,
               getSubsequentConnection(steps, position), "none", TRUE)
      ELSE Ask("getSubsequentConnection", position, NoAnswer, "TypeError", TRUE)

IsEmpty == Ask("isEmpty", 0, BooleanAnswer(isEmpty), "none", TRUE)

AtEnd ==
  \E position \in QueryPositions :
    Ask("atEnd", position, BooleanAnswer(atEnd(position)), "none", TRUE)

(***************************************************************************)
(* The query specification: the service after its constructor or after an  *)
(* assignment; steps are inserted and removed, and the queries are asked.  *)
(***************************************************************************)
InitQuery == Init \/ InitEdit

NextQuery ==
  \/ InsertStep
  \/ RemoveStep
  \/ GetFirstPosition
  \/ GetLastPosition
  \/ GetMiddlePosition
  \/ GetStep
  \/ GetStartStep
  \/ GetEndStep
  \/ GetStartConnection
  \/ GetEndConnection
  \/ GetMiddleSteps
  \/ GetPreviousSteps
  \/ GetSubsequentSteps
  \/ GetPreviousConnections
  \/ GetSubsequentConnections
  \/ GetPreviousConnection
  \/ GetSubsequentConnection
  \/ IsEmpty
  \/ AtEnd

SpecQuery == InitQuery /\ [][NextQuery]_vars

(***************************************************************************)
(* Claims about event['onSave'], checked under SpecChain.                  *)
(***************************************************************************)
EditKinds ==
  { "integration-insert-step", "integration-insert-connection",
    "integration-remove-step", "integration-set-step",
    "integration-set-properties", "integration-set-action",
    "integration-set-connection", "integration-set-property" }

\* C12: when the event of insert-step, insert-connection, remove-step,
\* set-step, set-properties, set-action, set-connection or set-property carries
\* a function as onSave, the handler has invoked it exactly once by the time it
\* returns, and the continuation found the document as the command left it
\* (for an insert below the length, one step longer than before the command);
\* integration-updated and integration-save invoke no onSave.
OnSaveInvokedOnce ==
  [][ /\ (lastCall'.kind \in EditKinds /\ continuation'.supplied \in Functions) =>
           /\ continuation'.calls = 1
           /\ continuation'.observed.present
           /\ continuation'.observed.steps = steps'
           /\ continuation'.observed.name = integration'.name
           /\ continuation'.observed.configuredProperties
                = integration'.configuredProperties
           /\ (/\ lastCall'.kind \in {"integration-insert-step",
                                       "integration-insert-connection"}
               /\ lastCall'.position < Len(steps)) =>
                Len(continuation'.observed.steps) = Len(steps) + 1
      /\ lastCall'.kind \in {"integration-updated", "integration-save"} =>
           continuation'.calls = 0
    ]_vars

\* integration-insert-step after position 0 of <<Twitter>> carried a function:
\* it was invoked once and found the two-step flow.
OnSaveWitness ==
  /\ lastCall.kind = "integration-insert-step"
  /\ lastCall.position = 0
  /\ continuation.supplied = "reads integration"
  /\ continuation.calls = 1
  /\ continuation.observed.steps = <<Twitter, createStep>>

(***************************************************************************)
(* Claims about the life cycle, checked under FairSpec.                    *)
(***************************************************************************)
\* The tasks of one kind among the pending tasks.
Pending(task) == Len(SelectSeq(timers, LAMBDA t : t = task))

\* C13: an assignment leaves one of the assigned documents as the owned
\* document, sets loaded to false and schedules one more emission of
\* integration-updated without handling it; loaded becomes true only in the
\* step that handles an integration-updated; and once an integration has been
\* assigned, loaded eventually is true.
LoadedAfterUpdated ==
  /\ [][ lastCall'.kind = "set integration" =>
           /\ integration' \in { Assigned(i) : i \in Integrations }
           /\ ~loaded'
           /\ timers' = Append(timers, "emit integration-updated")
       ]_vars
  /\ [][ (~loaded /\ loaded') => lastCall'.kind = "integration-updated" ]_vars
  /\ ((lastCall.kind = "set integration") ~> loaded)

\* The integration with a null entry was assigned, and its integration-updated
\* has been handled: loaded is true.
LoadedWitness ==
  /\ lastCall.kind = "integration-updated"
  /\ loaded
  /\ steps = <<Twitter, Salesforce>>

\* The last call was the deferred check and it emitted integration-no-connections.
NoConnectionsEmitted ==
  /\ lastCall.kind = "check isEmpty"
  /\ lastCall.arg = "integration-no-connections"

\* C14: integration-no-connections is emitted only by the deferred check, a
\* check is scheduled only by the handling of an integration-updated, and the
\* check emits exactly when the flow has no steps as it runs; after the
\* assignment of a flow without steps the notification is eventually emitted
\* unless the flow has got a step; while the flow has a step no check emits.
NoConnectionsOnlyWhenEmpty ==
  /\ [][ (noConnections' # noConnections) => NoConnectionsEmitted' ]_vars
  /\ [][ Pending("check isEmpty")' > Pending("check isEmpty") =>
           lastCall'.kind = "integration-updated" ]_vars
  /\ [][ lastCall'.kind = "check isEmpty" =>
           /\ Head(timers) = "check isEmpty"
           /\ NoConnectionsEmitted' <=> (integration.present => Len(steps) = 0)
           /\ NoConnectionsEmitted' => noConnections' ]_vars
  /\ [](NoConnectionsEmitted => Len(steps) = 0)
  /\ ((lastCall.kind = "set integration" /\ Len(steps) = 0)
        ~> (NoConnectionsEmitted \/ Len(steps) > 0))

\* A flow without steps was assigned and the deferred check has emitted
\* integration-no-connections.
NoConnectionsWitness ==
  /\ NoConnectionsEmitted
  /\ integration.present
  /\ Len(steps) = 0
  /\ loaded

(***************************************************************************)
(* Claims about the positional queries, checked under SpecQuery.           *)
(***************************************************************************)
Queries ==
  { "getFirstPosition", "getLastPosition", "getMiddlePosition", "getStep",
    "getStartStep", "getEndStep", "getStartConnection", "getEndConnection",
    "getMiddleSteps", "getPreviousSteps", "getSubsequentSteps",
    "getPreviousConnections", "getSubsequentConnections",
    "getPreviousConnection", "getSubsequentConnection", "isEmpty", "atEnd" }

\* C15 as stated: without an integration no positional query throws; isEmpty
\* and atEnd return true and every other query returns undefined or an empty
\* result (null or an empty array).
QueriesFailSoftly ==
  (~integration.present /\ lastCall.kind \in Queries) =>
    /\ exception = "none"
    /\ IF lastCall.kind \in {"isEmpty", "atEnd"}
         THEN answer = BooleanAnswer(TRUE)
         ELSE answer \in {UndefinedAnswer, NullAnswer, ArrayAnswer(<<>>)}

\* C16: with an integration, getLastPosition() returns max(1, steps.length - 1):
\* 1 for a flow of length 0 or 1 and n - 1 for a flow of length n > 1, so never
\* less than 1, whatever commands came before.
LastPositionIsMax ==
  (integration.present /\ lastCall.kind = "getLastPosition") =>
    /\ exception = "none"
    /\ answer = NumberAnswer(Max(1, Len(steps) - 1))
    /\ Len(steps) \in {0, 1} => answer.number = 1
    /\ Len(steps) > 1 => answer.number = Len(steps) - 1
    /\ answer.number >= 1

\* getLastPosition() was asked of a flow of one step and returned 1.
LastPositionWitness ==
  /\ integration.present
  /\ lastCall.kind = "getLastPosition"
  /\ Len(steps) = 1
  /\ answer = NumberAnswer(1)

\* The positions of the endpoint steps of the flow.
EndpointPositions ==
  { i \in 0..(Len(steps) - 1) :
      steps[i + 1].slot = "step" /\ steps[i + 1].stepKind = "endpoint" }

\* The step at the greatest (least) of the positions, undefined if there is none.
StepAtGreatest(positions) ==
  IF positions = {} THEN UndefinedAnswer
  ELSE StepAnswer(steps, CHOOSE i \in positions : \A j \in positions : j <= i)

StepAtLeast(positions) ==
  IF positions = {} THEN UndefinedAnswer
  ELSE StepAnswer(steps, CHOOSE i \in positions : \A j \in positions : i <= j)

\* C20 as stated: with an integration, getPreviousConnection(p) returns the
\* endpoint step with the greatest index below p and getSubsequentConnection(p)
\* the endpoint step with the least index above p; each returns undefined when
\* there is no such step.
NearestConnections ==
  integration.present =>
    /\ lastCall.kind = "getPreviousConnection" =>
         answer = StepAtGreatest({ i \in EndpointPositions : i < lastCall.position })
    /\ lastCall.kind = "getSubsequentConnection" =>
         answer = StepAtLeast({ i \in EndpointPositions : i > lastCall.position })

(***************************************************************************)
(* The Step Kind Catalog: the visibility predicate of the data mapper.     *)
(***************************************************************************)
\* Actions with and without data shapes.
ShapedActions == {"act1", "producer", "consumer"}

\* action.outputDataShape
outputDataShape(action) == IF action \in {"act1", "producer"} THEN "shape" ELSE Undefined

\* action.inputDataShape
inputDataShape(action) == IF action \in {"act1", "consumer"} THEN "shape" ELSE Undefined

\* The predicate that asks for either shape instead of both.
visibleWithEitherShape(position, previous, subsequent) ==
  LET prev == SelectSeq(previous,
                        LAMBDA st : /\ st.slot = "step"
                                    /\ st.action # Undefined
                                    /\ outputDataShape(st.action) # Undefined)
      subs == SelectSeq(subsequent,
                        LAMBDA st : /\ st.slot = "step"
                                    /\ st.action # Undefined
                                    /\ inputDataShape(st.action) # Undefined)
  IN  Len(prev) # 0 \/ Len(subs) # 0

\* StepStore.steps[0].visible, the data mapper's predicate; filter skips the
\* indices an array does not own.
visible(position, previous, subsequent) ==
  LET prev == SelectSeq(previous,
                        LAMBDA st : /\ st.slot = "step"
                                    /\ st.action # Undefined
                                    /\ outputDataShape(st.action) # Undefined)
      subs == SelectSeq(subsequent,
                        LAMBDA st : /\ st.slot = "step"
                                    /\ st.action # Undefined
                                    /\ inputDataShape(st.action) # Undefined)
  IN  IF Len(prev) = 0 THEN FALSE
      ELSE IF Len(subs) = 0 THEN FALSE
      ELSE TRUE

\* The steps a caller passes as neighbours: steps with each kind of action and
\* without one, and an index without a step.
Neighbours ==
  { Step("endpoint", "conn1", action, NoProps) : action \in ShapedActions \cup {Undefined} }
    \cup {Hole}

NeighbourLists == UNION { [1..n -> Neighbours] : n \in 0..MaxNeighbours }

\* A caller holds the arguments of a call of the data mapper's predicate:
\* lastCall.position is the position and lastCall.arg the two arrays.
InitCatalog ==
  /\ integration = NoIntegration
  /\ loaded = FALSE
  /\ timers = <<>>
  /\ noConnections = FALSE
  /\ requests = <<>>
  /\ callerProps = ScenarioProps
  /\ exception = "none"
  /\ lastCall \in { [kind |-> "arguments of visible", position |-> position,
                      arg |-> [previous |-> previous, subsequent |-> subsequent]]
                     : position \in QueryPositions, previous \in NeighbourLists,
                       subsequent \in NeighbourLists }
  /\ continuation = NoContinuation
  /\ onSaves = 0
  /\ answer = NoAnswer
  /\ history = [loads |-> 0, updates |-> 0]

\* The caller asks the descriptor whether the kind is visible.
Visible ==
  /\ lastCall.kind = "arguments of visible"
  /\ lastCall' = [lastCall EXCEPT !.kind = "visible"]
  /\ answer' = BooleanAnswer(visible(lastCall.position, lastCall.arg.previous,
                                     lastCall.arg.subsequent))
  /\ exception' = "none"
  /\ continuation' = NoContinuation
  /\ UNCHANGED <<integration, loaded, timers, noConnections, requests,
                 callerProps, onSaves, history>>

NextCatalog == Visible

SpecCatalog == InitCatalog /\ [][NextCatalog]_vars

\* A step of the array has an action with a resolved output (input) shape.
HasOutputShape(array) ==
  \E i \in 1..Len(array) :
    /\ array[i].slot = "step"
    /\ array[i].action \in {"act1", "producer"}

HasInputShape(array) ==
  \E i \in 1..Len(array) :
    /\ array[i].slot = "step"
    /\ array[i].action \in {"act1", "consumer"}

\* C17: the data mapper's predicate returns true exactly when a step of
\* `previous` has an action with a resolved outputDataShape and a step of
\* `subsequent` has an action with a resolved inputDataShape; it returns false
\* for an empty `previous` and for an empty `subsequent`, and the same for
\* every position.
VisibleNeedsBothShapes ==
  lastCall.kind = "visible" =>
    /\ answer.kind = "boolean"
    /\ answer.boolean <=> (/\ HasOutputShape(lastCall.arg.previous)
                           /\ HasInputShape(lastCall.arg.subsequent))
    /\ lastCall.arg.previous = <<>> => ~answer.boolean
    /\ lastCall.arg.subsequent = <<>> => ~answer.boolean
    /\ \A position \in QueryPositions :
         answer.boolean = visible(position, lastCall.arg.previous,
                                  lastCall.arg.subsequent)

\* The predicate was asked with a producer before and a consumer after the
\* position and returned true.
VisibleWitness ==
  /\ lastCall.kind = "visible"
  /\ lastCall.arg.previous = <<Step("endpoint", "conn1", "producer", NoProps)>>
  /\ lastCall.arg.subsequent = <<Step("endpoint", "conn1", "consumer", NoProps)>>
  /\ answer = BooleanAnswer(TRUE)

(***************************************************************************)
(* Claims about the order of commands (SpecChain) and about the frame of   *)
(* integration-save (SpecSave).                                            *)
(***************************************************************************)
\* C18 as stated: no handler of a command is entered while the handler of
\* another command has not returned, also when the onSave of a command issues
\* a follow-up command.
NoReentrantHandling ==
  continuation.nested = <<>>

SaveSteps == {"integration-save", "updateOrCreate next", "updateOrCreate error"}

\* C19 as stated: integration-save and the arrival of its result leave every
\* field of the owned document as it was.
SaveLeavesDocument ==
  [][ lastCall'.kind \in SaveSteps => integration' = integration ]_vars

\* C19, amended: integration-save leaves the steps, the tags and every other
\* field of the owned document as they were, except that a document without a
\* steps array has an empty one afterwards; the arrival of the result changes
\* nothing; the tags handed to the store are those of the document followed
\* by the derived connector ids, which are not added to the owned document.
SaveKeepsDocumentButCreatesSteps ==
  [][ /\ lastCall'.kind = "integration-save" =>
           /\ integration' = [integration EXCEPT !.hasSteps = TRUE]
           /\ exception' = "none" =>
                requests'[Len(requests')].tags = ExpectedTags(integration')
      /\ lastCall'.kind \in {"updateOrCreate next", "updateOrCreate error"} =>
           integration' = integration
    ]_vars

\* A flow whose only tag is 'custom' was saved: the store got the tags
\* 'custom' and 'twitter', the owned document still has 'custom' alone.
SaveFrameWitness ==
  /\ lastCall.kind = "integration-save"
  /\ exception = "none"
  /\ integration.tags = <<"custom">>
  /\ requests[Len(requests)].tags = <<"custom", "twitter">>

(***************************************************************************)
(* The claim about several assignments, checked under FairSpec.            *)
(***************************************************************************)
\* C21: an assignment schedules one more emission of integration-updated and
\* keeps every task scheduled before; the notifications handled and the
\* emissions still scheduled are together as many as the assignments made, and
\* after k assignments k notifications are eventually handled; a notification
\* carries the owned document as it is when the task fires and sets loaded to
\* true, also while the emission of a later assignment is still scheduled.
EveryLoadNotifies ==
  /\ [][ lastCall'.kind = "set integration" =>
           /\ timers' = Append(timers, "emit integration-updated")
           /\ history'.loads = history.loads + 1
           /\ history'.updates = history.updates ]_vars
  /\ [](history.updates + Pending("emit integration-updated") = history.loads)
  /\ [][ lastCall'.kind = "integration-updated" =>
           /\ Head(timers) = "emit integration-updated"
           /\ history'.updates = history.updates + 1
           /\ history'.loads = history.loads
           /\ integration' = integration
           /\ lastCall'.arg = integration
           /\ loaded' ]_vars
  /\ \A k \in 1..MaxLoads : (history.loads = k) ~> (history.updates >= k)

\* C21 witness: the integration with steps <<Twitter>> was assigned while the
\* emission of an earlier assignment was still scheduled; that emission has
\* now been handled, it carried the integration owned now, loaded is true, and
\* the emission scheduled by the later assignment is still to fire.
EarlierNotificationWitness ==
  /\ lastCall.kind = "integration-updated"
  /\ history = [loads |-> 2, updates |-> 1]
  /\ Pending("emit integration-updated") = 1
  /\ loaded
  /\ steps = <<Twitter>>
  /\ lastCall.arg = integration

====
